---- MODULE Spec2Model ----
(***************************************************************************)
(* The generated entity services of the point-of-sale backend              *)
(* (app/backend/services/*.py) over their SQLAlchemy models                *)
(* (app/backend/models/*.py).  Every service is the same template; the     *)
(* model keeps one operator per service method, parameterised by the       *)
(* entity, and one action per service call.  A call runs to completion     *)
(* (the session is awaited statement by statement by a single request).    *)
(* The batch routes of the routers (app/backend/routers/*.py) are the      *)
(* loops they run around the service calls.                                 *)
(*                                                                         *)
(* Each table keeps its primary key, its owner column when the model has   *)
(* one, one NOT NULL column and one nullable column (with its column       *)
(* default when it has one); the other columns of a model behave like the  *)
(* kept column of the same kind.                                           *)
(***************************************************************************)
EXTENDS Integers, FiniteSets, Sequences, TLC

VARIABLES
    db,      \* db[e]: the committed rows of table e, a set of records
    seq,     \* seq[e]: the next value of the autoincrement id of table e
    last,    \* the last service call: its arguments, the row stored under its id
             \* when it began, its outcome, the session calls it made
    txn      \* txn[r]: the session of request r while its call is between two
             \* awaits: where the call is, its arguments, the object it loaded

vars == <<db, seq, last, txn>>

\* Python's None and SQL's NULL, in a string column and in an integer column.
NULL == "NULL"
NullInt == 1 - 1

\* Ids handed out by one table's autoincrement sequence are 1..MaxId.
MaxId == 2

\* Rows created in the tables that refer to orders (order_items, payments), in all.
MaxChildren == 2

\* The most items in one batch request.
MaxBatch == 2

\* The largest page size N asked of get_list (pages of N and of 2N rows).
MaxPage == 1

\* As Truthy, had the test been `if user_id is not None:`.
Truthy_NotNone(v) == v # NULL

\* Python truthiness of an Optional[str]: `if user_id:`.
Truthy(v) == v # NULL /\ v # ""

Ids == 1..MaxId

\* Caller identities (str(current_user.id)) and the user_id arguments a call may carry.
Users == {"u1", "u2"}
UserArgs == Users \cup {NULL}

(***************************************************************************)
(* The models: mapped columns, NOT NULL columns, column defaults.          *)
(***************************************************************************)
IntegerColumns == {"id", "order_id"}

NullOf(c) == IF c \in IntegerColumns THEN NullInt ELSE NULL

User_profiles ==
    [ columns  |-> {"id", "user_id", "role", "phone"},
      notnull  |-> {"id", "user_id", "role"},
      default  |-> [c \in {"id", "user_id", "role", "phone"} |-> NullOf(c)] ]

Orders ==
    [ columns  |-> {"id", "order_number", "status"},
      notnull  |-> {"id", "order_number"},
      default  |-> [c \in {"id", "order_number", "status"} |->
                        IF c = "status" THEN "pending" ELSE NullOf(c)] ]

Order_items ==
    [ columns  |-> {"id", "order_id"},
      notnull  |-> {"id", "order_id"},
      default  |-> [c \in {"id", "order_id"} |-> NullOf(c)] ]

Payments ==
    [ columns  |-> {"id", "order_id"},
      notnull  |-> {"id", "order_id"},
      default  |-> [c \in {"id", "order_id"} |-> NullOf(c)] ]

\* models.base.BaseModel, the declarative base of Items and Organizations: the
\* surrogate key of an entity, an auto-incrementing integer named id.
BaseModel ==
    [ columns  |-> {"id"},
      notnull  |-> {"id"},
      default  |-> [c \in {"id"} |-> NullOf(c)] ]

\* The owner field of a tenant-owned entity, where the class body declares none
\* (services/items.py reads and writes Items.user_id).
TenantOwned ==
    [ columns  |-> {"user_id"},
      notnull  |-> {"user_id"},
      default  |-> [c \in {"user_id"} |-> NullOf(c)] ]

\* class X(base): the columns of the base and the columns of the class body.
Declare(base, body) ==
    [ columns  |-> base.columns \cup body.columns,
      notnull  |-> base.notnull \cup body.notnull,
      default  |-> [c \in base.columns \cup body.columns |->
                        IF c \in body.columns THEN body.default[c] ELSE base.default[c]] ]

\* class Items (the list result is named Items here), of its required columns
\* name and base_price, of its optional ones the two with the defaults True and
\* 0.  Values other than ids and owners are written as their JSON text.
ItemsTable ==
    Declare(Declare(BaseModel, TenantOwned),
        [ columns  |-> {"name", "base_price", "is_active", "current_stock"},
          notnull  |-> {"name", "base_price"},
          default  |-> [c \in {"name", "base_price", "is_active", "current_stock"} |->
                            CASE c = "is_active"     -> "true"
                              [] c = "current_stock" -> "0"
                              [] OTHER               -> NullOf(c)] ])

Organizations ==
    Declare(BaseModel,
        [ columns  |-> {"name", "status"},
          notnull  |-> {"name"},
          default  |-> [c \in {"name", "status"} |->
                            IF c = "status" THEN "active" ELSE NullOf(c)] ])

Entities == {"user_profiles", "orders", "order_items", "payments", "items", "organizations"}

Model(e) ==
    CASE e = "user_profiles" -> User_profiles
      [] e = "orders"        -> Orders
      [] e = "order_items"   -> Order_items
      [] e = "payments"      -> Payments
      [] e = "items"         -> ItemsTable
      [] e = "organizations" -> Organizations

\* hasattr(Model, key) for the keys a caller may send.
hasattr(e, key) == key \in Model(e).columns

\* The values a caller may send for a key ("bogus" is a key no model has).
InputValues(key) ==
    CASE key = "id"           -> Ids
      [] key = "user_id"      -> Users
      [] key = "role"         -> {"cashier", NULL}
      [] key = "phone"        -> {"555", NULL}
      [] key = "order_number" -> {"A-1", NULL}
      [] key = "status"       -> {"paid", NULL}
      [] key = "order_id"     -> Ids
      [] key = "name"         -> {"Latte", NULL}
      [] key = "base_price"   -> {"4.5", "5.0", NULL}
      [] key = "is_active"    -> {"false", NULL}
      [] key = "current_stock" -> {"7", NULL}
      [] key = "bogus"        -> {"x"}

EmptyDict == [k \in {} |-> NULL]

\* data[key] = value
Put(data, key, value) ==
    [k \in DOMAIN data \cup {key} |-> IF k = key THEN value ELSE data[k]]

(***************************************************************************)
(* Outcomes of a call.                                                     *)
(***************************************************************************)
NoObj == [id |-> NullInt]

Obj(r)     == [kind |-> "obj",   obj |-> r,     exc |-> NULL]
None       == [kind |-> "none",  obj |-> NoObj, exc |-> NULL]
True       == [kind |-> "true",  obj |-> NoObj, exc |-> NULL]
False      == [kind |-> "false", obj |-> NoObj, exc |-> NULL]
Raise(x)   == [kind |-> "raise", obj |-> NoObj, exc |-> x]

(***************************************************************************)
(* The store: the constraints the tables declare.                          *)
(***************************************************************************)
\* primary_key=True: a row may be written under an id no other row has.
PrimaryKeyOK(others, row) == \A r \in others : r.id # row.id

\* nullable=False
NotNullOK(e, row) == \A c \in Model(e).notnull : row[c] # NullOf(c)

\* As ForeignKeys, had order_items and payments declared
\* order_id = Column(Integer, ForeignKey("orders.id", ondelete="CASCADE")).
ForeignKeys_Cascade(e) ==
    IF e \in {"order_items", "payments"}
    THEN {[column |-> "order_id", references |-> "orders", ondelete |-> "CASCADE"]}
    ELSE {}

\* The foreign keys a table declares, as [column, references, ondelete].  No model
\* declares one: order_id is Column(Integer, nullable=False).
ForeignKeys(e) == {}

\* DELETE of a row of table e: the row goes, and with it the rows of other tables
\* that refer to it through a foreign key declared ON DELETE CASCADE.
DeleteRow(dbs, e, row) ==
    [t \in DOMAIN dbs |->
        IF t = e THEN dbs[t] \ {row}
        ELSE {r \in dbs[t] : ~\E fk \in ForeignKeys(t) :
                                 /\ fk.references = e
                                 /\ fk.ondelete = "CASCADE"
                                 /\ r[fk.column] = row.id}]

\* As InsertRow, had a None attribute been stored as NULL.
InsertRow_NoneStored(e, id, data) ==
    [c \in Model(e).columns |->
        IF c = "id" THEN id
        ELSE IF c \in DOMAIN data THEN data[c]
        ELSE Model(e).default[c]]

\* The row an INSERT of the given attributes stores: a None attribute is left to
\* the column's default, the id comes from the sequence.
InsertRow(e, id, data) ==
    [c \in Model(e).columns |->
        IF c = "id" THEN id
        ELSE IF c \in DOMAIN data /\ data[c] # NullOf(c) THEN data[c]
        ELSE Model(e).default[c]]

(***************************************************************************)
(* The service methods.  A result is                                       *)
(*   [db, seq: the tables and the sequence of the entity after the call,   *)
(*    ret: what the method returns or raises,                              *)
(*    commits, rollbacks: the db.commit() and db.rollback() calls it made] *)
(***************************************************************************)
Result(dbs, sq, ret, commits, rollbacks) ==
    [db |-> dbs, seq |-> sq, ret |-> ret, commits |-> commits, rollbacks |-> rollbacks]

\* As get_by_id, without the .where(Model.user_id == user_id).
get_by_id_Unscoped(e, dbs, obj_id, user_id) ==
    IF Truthy(user_id) /\ ~hasattr(e, "user_id")
    THEN Raise("AttributeError")
    ELSE LET rows == {r \in dbs[e] : r.id = obj_id}
         IN  IF rows = {} THEN None
             ELSE IF Cardinality(rows) = 1 THEN Obj(CHOOSE r \in rows : TRUE)
             ELSE Raise("MultipleResultsFound")

\* As get_by_id, were a row of another owner refused rather than not matched.
get_by_id_Forbidden(e, dbs, obj_id, user_id) ==
    IF Truthy(user_id) /\ ~hasattr(e, "user_id")
    THEN Raise("AttributeError")
    ELSE LET rows == {r \in dbs[e] : r.id = obj_id}
         IN  IF rows = {} THEN None
             ELSE IF \E r \in rows : Truthy(user_id) /\ r.user_id # user_id
             THEN Raise("PermissionError")
             ELSE IF Cardinality(rows) = 1 THEN Obj(CHOOSE r \in rows : TRUE)
             ELSE Raise("MultipleResultsFound")

\* get_by_id: select(Model).where(Model.id == obj_id), and
\* .where(Model.user_id == user_id) when user_id is truthy; scalar_one_or_none().
get_by_id(e, dbs, obj_id, user_id) ==
    IF Truthy(user_id) /\ ~hasattr(e, "user_id")
    THEN Raise("AttributeError")
    ELSE LET rows == {r \in dbs[e] : /\ r.id = obj_id
                                     /\ (Truthy(user_id) => r.user_id = user_id)}
         IN  IF rows = {} THEN None
             ELSE IF Cardinality(rows) = 1 THEN Obj(CHOOSE r \in rows : TRUE)
             ELSE Raise("MultipleResultsFound")

\* As Inject, with data.setdefault('user_id', user_id).
Inject_KeepGiven(data, user_id) ==
    IF Truthy(user_id) /\ "user_id" \notin DOMAIN data
    THEN Put(data, "user_id", user_id) ELSE data

\* create: `if user_id: data['user_id'] = user_id`.
Inject(data, user_id) ==
    IF Truthy(user_id) THEN Put(data, "user_id", user_id) ELSE data

\* What the store does to a call besides checking the constraints: nothing, or
\* it fails (the connection drops) inside `await self.db.commit()`, or inside
\* `await self.db.refresh(obj)`.
NoFault == "none"
Faults == {"commit", "refresh"}

\* create: inject user_id, build the object, add, commit, refresh; on any
\* exception rollback and re-raise.  A commit that raised wrote nothing; a
\* refresh raises after the commit, and the rollback that follows finds
\* nothing to undo.
create(e, dbs, sq, data, user_id, fault) ==
    LET d   == Inject(data, user_id)
        row == InsertRow(e, sq, d)
    IN  IF \E k \in DOMAIN d : ~hasattr(e, k)
        THEN Result(dbs, sq, Raise("TypeError"), 0, 1)
        ELSE IF fault = "commit"
        THEN Result(dbs, sq, Raise("OperationalError"), 1, 1)
        ELSE IF ~(PrimaryKeyOK(dbs[e], row) /\ NotNullOK(e, row))
        THEN Result(dbs, sq + 1, Raise("IntegrityError"), 1, 1)
        ELSE IF fault = "refresh"
        THEN Result([dbs EXCEPT ![e] = @ \cup {row}], sq + 1, Raise("OperationalError"), 1, 1)
        ELSE Result([dbs EXCEPT ![e] = @ \cup {row}], sq + 1, Obj(row), 1, 0)

\* As ApplyPatch, without `and key != 'user_id'`.
ApplyPatch_OwnerToo(e, obj, update_data) ==
    [c \in DOMAIN obj |->
        IF c \in DOMAIN update_data /\ hasattr(e, c)
        THEN update_data[c] ELSE obj[c]]

\* As ApplyPatch, with `and value is not None`.
ApplyPatch_SkipNone(e, obj, update_data) ==
    [c \in DOMAIN obj |->
        IF c \in DOMAIN update_data /\ hasattr(e, c) /\ c # "user_id"
           /\ update_data[c] # NullOf(c)
        THEN update_data[c] ELSE obj[c]]

\* The loop of update: setattr for every key the object has, except user_id.
ApplyPatch(e, obj, update_data) ==
    [c \in DOMAIN obj |->
        IF c \in DOMAIN update_data /\ hasattr(e, c) /\ c # "user_id"
        THEN update_data[c] ELSE obj[c]]

\* update: resolve through get_by_id, apply the patch, commit, refresh.
update(e, dbs, sq, obj_id, update_data, user_id, fault) ==
    LET got == get_by_id(e, dbs, obj_id, user_id)
    IN  IF got.kind = "raise" THEN Result(dbs, sq, got, 0, 1)
        ELSE IF got.kind = "none" THEN Result(dbs, sq, None, 0, 0)
        ELSE LET obj     == ApplyPatch(e, got.obj, update_data)
                 written == [dbs EXCEPT ![e] = (@ \ {got.obj}) \cup {obj}]
             IN  IF fault = "commit"
                 THEN Result(dbs, sq, Raise("OperationalError"), 1, 1)
                 ELSE IF ~(PrimaryKeyOK(dbs[e] \ {got.obj}, obj) /\ NotNullOK(e, obj))
                 THEN Result(dbs, sq, Raise("IntegrityError"), 1, 1)
                 ELSE IF fault = "refresh"
                 THEN Result(written, sq, Raise("OperationalError"), 1, 1)
                 ELSE Result(written, sq, Obj(obj), 1, 0)

\* delete: resolve through get_by_id, delete, commit (there is no refresh).
delete(e, dbs, sq, obj_id, user_id, fault) ==
    LET got == get_by_id(e, dbs, obj_id, user_id)
    IN  IF got.kind = "raise" THEN Result(dbs, sq, got, 0, 1)
        ELSE IF got.kind = "none" THEN Result(dbs, sq, False, 0, 0)
        ELSE IF fault = "commit"
        THEN Result(dbs, sq, Raise("OperationalError"), 1, 1)
        ELSE Result(DeleteRow(dbs, e, got.obj), sq, True, 1, 0)

(***************************************************************************)
(* get_list.  A sort argument is a string, kept as the sequence of its     *)
(* parts: a "-" and the name that follows; None is NoSort.  The statement  *)
(* orders the rows by at most one column, so the store is free in the      *)
(* order of rows that column does not tell apart, in where it puts NULL,   *)
(* and in the whole order when there is no ORDER BY: get_list is the set   *)
(* of results a call can return.                                           *)
(***************************************************************************)
NoSort == <<NULL>>

\* `if sort:`
SortGiven(sort) == sort # NoSort /\ sort # << >>

\* sort.startswith('-')
startswith(sort, prefix) == Len(sort) > 0 /\ Head(sort) = prefix

\* hasattr(Model, name) for a name read off the sort string
hasattrName(e, name) == Len(name) = 1 /\ hasattr(e, name[1])

NoOrder == [column |-> "", desc |-> FALSE]

\* As order_by, without the .desc() of the "-" branch.
order_by_Ascending(e, sort) ==
    IF SortGiven(sort)
    THEN IF startswith(sort, "-")
         THEN LET field_name == Tail(sort)
              IN  IF hasattrName(e, field_name)
                  THEN [column |-> field_name[1], desc |-> FALSE]
                  ELSE NoOrder
         ELSE IF hasattrName(e, sort)
              THEN [column |-> sort[1], desc |-> FALSE]
              ELSE NoOrder
    ELSE [column |-> "id", desc |-> TRUE]

\* The ORDER BY get_list builds: the named column when the model has it,
\* id descending when no sort is asked for, and nothing otherwise.
order_by(e, sort) ==
    IF SortGiven(sort)
    THEN IF startswith(sort, "-")
         THEN LET field_name == Tail(sort)
              IN  IF hasattrName(e, field_name)
                  THEN [column |-> field_name[1], desc |-> TRUE]
                  ELSE NoOrder
         ELSE IF hasattrName(e, sort)
              THEN [column |-> sort[1], desc |-> FALSE]
              ELSE NoOrder
    ELSE [column |-> "id", desc |-> TRUE]

\* The collation of the values a column holds; NULL sorts above every value
\* or below every value, as the store has it.
Rank(c, v, nullsHigh) ==
    IF c \in IntegerColumns THEN v
    ELSE IF v = NULL THEN (IF nullsHigh THEN 9 ELSE 1 - 2)
    ELSE IF v = "pending" THEN 2
    ELSE 1

\* Row a comes strictly before row b under the ORDER BY.
Before(order, a, b, nullsHigh) ==
    IF order.desc
    THEN Rank(order.column, a[order.column], nullsHigh) > Rank(order.column, b[order.column], nullsHigh)
    ELSE Rank(order.column, a[order.column], nullsHigh) < Rank(order.column, b[order.column], nullsHigh)

\* The orders in which the store can return the rows.
Orderings(rows, order) ==
    LET n == Cardinality(rows)
    IN  {p \in [1..n -> rows] :
            /\ \A i, j \in 1..n : i # j => p[i] # p[j]
            /\ order # NoOrder =>
                  \E nullsHigh \in BOOLEAN :
                      \A i, j \in 1..n : i < j => ~Before(order, p[j], p[i], nullsHigh)}

\* The where() clauses of the filters: one per key the model has.
Filtered(e, rows, query_dict) ==
    {r \in rows : \A field \in DOMAIN query_dict :
                     hasattr(e, field) => r[field] = query_dict[field]}

\* As Offset, had the page been cut without .offset(skip).
Offset_NoSkip(p, skip, limit) ==
    [i \in 1..(IF Len(p) < limit THEN Len(p) ELSE limit) |-> p[i]]

\* .offset(skip).limit(limit)
Offset(p, skip, limit) ==
    [i \in 1..(IF Len(p) - skip < limit
               THEN (IF Len(p) > skip THEN Len(p) - skip ELSE 0)
               ELSE limit) |-> p[skip + i]]

\* return {"items": items, "total": total, "skip": skip, "limit": limit}
Items(items, total, skip, limit) ==
    [kind |-> "list", obj |-> NoObj, exc |-> NULL, items |-> items, total |-> total,
     skip |-> skip, limit |-> limit]

\* .where(Model.user_id == user_id), added when user_id is truthy.
Owned(rows, user_id) == {r \in rows : Truthy(user_id) => r.user_id = user_id}

\* As Count, the filters added to query only.
Count_NoFilters(e, dbs, user_id, query_dict) ==
    Cardinality(Owned(dbs[e], user_id))

\* count_query: select(func.count(Model.id)) with the owner clause and the
\* filter clauses added to it beside query.
Count(e, dbs, user_id, query_dict) ==
    Cardinality(Filtered(e, Owned(dbs[e], user_id), query_dict))

get_list(e, dbs, skip, limit, user_id, query_dict, sort) ==
    IF Truthy(user_id) /\ ~hasattr(e, "user_id")
    THEN {Raise("AttributeError")}
    ELSE LET rows == Filtered(e, Owned(dbs[e], user_id), query_dict)
         IN  {Items(Offset(p, skip, limit), Count(e, dbs, user_id, query_dict), skip, limit) :
                 p \in Orderings(rows, order_by(e, sort))}

(***************************************************************************)
(* The batch routes of a router (app/backend/routers/*.py): one loop over  *)
(* the request's items around the service call, inside one try.  A         *)
(* response is                                                             *)
(*   [db, seq: the tables and the sequence after the request,              *)
(*    status: the HTTP status, body: the records returned,                 *)
(*    deleted_count, attempted: the service calls made]                    *)
(* The store fails, if it does, during the call for item faultAt.          *)
(***************************************************************************)
\* The fields of the create schema and of the update schema of an entity:
\* neither has id or user_id.
SchemaFields(e) == Model(e).columns \ {"id", "user_id"}

\* item.model_dump(): every field of the schema, None where the request gave none.
model_dump(e, item) ==
    [f \in SchemaFields(e) |-> IF f \in DOMAIN item THEN item[f] ELSE NullOf(f)]

\* As StripNone, had the routes passed the dumped patch on as it is.
StripNone_Keep(d) == d

\* {k: v for k, v in item.updates.model_dump().items() if v is not None}
StripNone(d) ==
    [k \in {f \in DOMAIN d : d[f] # NullOf(f)} |-> d[k]]

FaultOf(k, faultAt, fault) == IF k = faultAt THEN fault ELSE NoFault

Response(dbs, sq, status, body, deleted_count, attempted) ==
    [db |-> dbs, seq |-> sq, status |-> status, body |-> body,
     deleted_count |-> deleted_count, attempted |-> attempted]

\* As rollback, had the whole batch been one transaction.
rollback_Batch(start, res) == start

\* `await db.rollback()` of the route's except branch: the service has
\* committed or rolled back each item by then, so the tables stay as the
\* failed call left them.
rollback(start, res) == [db |-> res.db, seq |-> res.seq]

\* except Exception: rollback, HTTPException(status_code=500)
BatchFailed(start, res, k) ==
    LET now == rollback(start, res)
    IN  Response(now.db, now.seq, 500, << >>, 0, k)

RECURSIVE create_batch(_, _, _, _, _, _, _, _, _)
create_batch(e, start, dbs, sq, items, user_id, faultAt, fault, results) ==
    LET k == Len(results.seen) + 1
    IN  IF k > Len(items)
        THEN Response(dbs, sq, 201, results.body, 0, k - 1)
        ELSE LET res == create(e, dbs, sq, model_dump(e, items[k]), user_id,
                               FaultOf(k, faultAt, fault))
             IN  IF res.ret.kind = "raise"
                 THEN BatchFailed(start, res, k)
                 ELSE create_batch(e, start, res.db, res.seq, items, user_id, faultAt, fault,
                        [seen |-> Append(results.seen, k),
                         body |-> IF res.ret.kind = "obj"
                                  THEN Append(results.body, res.ret.obj)
                                  ELSE results.body])

RECURSIVE update_batch(_, _, _, _, _, _, _, _, _)
update_batch(e, start, dbs, sq, items, user_id, faultAt, fault, results) ==
    LET k == Len(results.seen) + 1
    IN  IF k > Len(items)
        THEN Response(dbs, sq, 200, results.body, 0, k - 1)
        ELSE LET update_dict == StripNone(model_dump(e, items[k].updates))
                 res == update(e, dbs, sq, items[k].id, update_dict, user_id,
                               FaultOf(k, faultAt, fault))
             IN  IF res.ret.kind = "raise"
                 THEN BatchFailed(start, res, k)
                 ELSE update_batch(e, start, res.db, res.seq, items, user_id, faultAt, fault,
                        [seen |-> Append(results.seen, k),
                         body |-> IF res.ret.kind = "obj"
                                  THEN Append(results.body, res.ret.obj)
                                  ELSE results.body])

RECURSIVE delete_batch(_, _, _, _, _, _, _, _, _)
delete_batch(e, start, dbs, sq, ids, user_id, faultAt, fault, deleted_count) ==
    LET k == Len(deleted_count.seen) + 1
    IN  IF k > Len(ids)
        THEN Response(dbs, sq, 200, << >>, deleted_count.n, k - 1)
        ELSE LET res == delete(e, dbs, sq, ids[k], user_id, FaultOf(k, faultAt, fault))
             IN  IF res.ret.kind = "raise"
                 THEN BatchFailed(start, res, k)
                 ELSE delete_batch(e, start, res.db, res.seq, ids, user_id, faultAt, fault,
                        [seen |-> Append(deleted_count.seen, k),
                         n    |-> IF res.ret = True
                                  THEN deleted_count.n + 1
                                  ELSE deleted_count.n])

(***************************************************************************)
(* The single-record routes of a router (app/backend/routers/*.py): one    *)
(* service call inside a try that lets an HTTPException through and turns  *)
(* any other exception into a 500.  A reply is                             *)
(*   [db, seq: the tables and the sequence after the request,              *)
(*    status: the HTTP status, body: the records returned,                 *)
(*    detail: the detail of the HTTPException, NULL without one]           *)
(***************************************************************************)
Reply(dbs, sq, status, body, detail) ==
    [db |-> dbs, seq |-> sq, status |-> status, body |-> body, detail |-> detail]

\* raise HTTPException(status_code=404, detail="<Entity> not found")
NotFound(dbs, sq) == Reply(dbs, sq, 404, << >>, "not found")

\* except Exception as e: HTTPException(status_code=500,
\* detail=f"Internal server error: {str(e)}")
InternalError(dbs, sq, exc) == Reply(dbs, sq, 500, << >>, exc)

\* GET /{id}
get_entity(e, dbs, sq, id, current_user) ==
    LET result == get_by_id(e, dbs, id, current_user)
    IN  IF result.kind = "raise" THEN InternalError(dbs, sq, result.exc)
        ELSE IF result = None THEN NotFound(dbs, sq)
        ELSE Reply(dbs, sq, 200, <<result.obj>>, NULL)

\* POST: create(data.model_dump(), user_id=str(current_user.id))
create_entity(e, dbs, sq, data, current_user, fault) ==
    LET res == create(e, dbs, sq, model_dump(e, data), current_user, fault)
    IN  IF res.ret.kind = "raise" THEN InternalError(res.db, res.seq, res.ret.exc)
        ELSE Reply(res.db, res.seq, 201, <<res.ret.obj>>, NULL)

\* PUT /{id}: the patch is the schema's non-None values.
update_entity(e, dbs, sq, id, data, current_user, fault) ==
    LET update_dict == StripNone(model_dump(e, data))
        res == update(e, dbs, sq, id, update_dict, current_user, fault)
    IN  IF res.ret.kind = "raise" THEN InternalError(res.db, res.seq, res.ret.exc)
        ELSE IF res.ret = None THEN NotFound(res.db, res.seq)
        ELSE Reply(res.db, res.seq, 200, <<res.ret.obj>>, NULL)

\* DELETE /{id}: answers {"message": ..., "id": id}.
delete_entity(e, dbs, sq, id, current_user, fault) ==
    LET res == delete(e, dbs, sq, id, current_user, fault)
    IN  IF res.ret.kind = "raise" THEN InternalError(res.db, res.seq, res.ret.exc)
        ELSE IF res.ret = False THEN NotFound(res.db, res.seq)
        ELSE Reply(res.db, res.seq, 200, <<[id |-> id]>>, NULL)

(***************************************************************************)
(* The list routes of a router: `query` is the text of a JSON document,    *)
(* here the sequence of its tokens [t, v]: the punctuation { } [ ] : , a   *)
(* string ("str"), a number ("num", v its digits), null, or text that is   *)
(* no JSON token ("word").  The empty sequence is the query not given.     *)
(***************************************************************************)
Tok(t, v) == [t |-> t, v |-> v]

\* What json.loads returns: an object (dict), an array (list, of size items), a
\* string, a number or None; or it raises JSONDecodeError.
Json(type, dict, size, text) == [type |-> type, dict |-> dict, size |-> size, text |-> text]
JsonNone        == Json("null", EmptyDict, 0, NULL)
JSONDecodeError == Json("error", EmptyDict, 0, "JSONDecodeError")

Scalar(tok) == tok.t \in {"str", "num", "null"}

\* The Python value of a scalar member of an object.
ScalarValue(tok) == IF tok.t = "null" THEN NULL ELSE tok.v

\* The members of an object, "key": value separated by commas; of a key given
\* twice the last value stays.
RECURSIVE Members(_)
Members(toks) ==
    IF Len(toks) < 3 \/ toks[1].t # "str" \/ toks[2].t # ":" \/ ~Scalar(toks[3])
    THEN JSONDecodeError
    ELSE LET member == toks[1].v :> ScalarValue(toks[3])
         IN  IF Len(toks) = 3 THEN Json("object", member, 1, NULL)
             ELSE IF toks[4].t # "," THEN JSONDecodeError
             ELSE LET rest == Members(SubSeq(toks, 5, Len(toks)))
                  IN  IF rest.type = "error" THEN JSONDecodeError
                      ELSE Json("object", rest.dict @@ member,
                                Cardinality(DOMAIN (rest.dict @@ member)), NULL)

\* The elements of an array, scalars separated by commas.
RECURSIVE Elements(_)
Elements(toks) ==
    IF Len(toks) < 1 \/ ~Scalar(toks[1]) THEN JSONDecodeError
    ELSE IF Len(toks) = 1 THEN Json("array", EmptyDict, 1, NULL)
    ELSE IF toks[2].t # "," THEN JSONDecodeError
    ELSE LET rest == Elements(SubSeq(toks, 3, Len(toks)))
         IN  IF rest.type = "error" THEN JSONDecodeError
             ELSE Json("array", EmptyDict, rest.size + 1, NULL)

\* json.loads(query)
json_loads(query) ==
    LET n == Len(query)
    IN  IF n = 0 THEN JSONDecodeError
        ELSE IF query[1].t = "{"
        THEN (IF n < 2 \/ query[n].t # "}" THEN JSONDecodeError
              ELSE IF n = 2 THEN Json("object", EmptyDict, 0, NULL)
              ELSE Members(SubSeq(query, 2, n - 1)))
        ELSE IF query[1].t = "["
        THEN (IF n < 2 \/ query[n].t # "]" THEN JSONDecodeError
              ELSE IF n = 2 THEN Json("array", EmptyDict, 0, NULL)
              ELSE Elements(SubSeq(query, 2, n - 1)))
        ELSE IF n = 1 /\ Scalar(query[1])
        THEN Json(query[1].t, EmptyDict, 0, query[1].v)
        ELSE JSONDecodeError

\* `if query_dict:` for what json.loads returned.
TruthyJson(value) ==
    CASE value.type \in {"object", "array"} -> value.size > 0
      [] value.type = "str"                  -> value.text # ""
      [] value.type = "num"                  -> value.text # "0"
      [] OTHER                               -> FALSE

\* get_list called with what json.loads returned as query_dict: a falsy value
\* adds no filter, a truthy value that is no dict has no items().
get_list_json(e, dbs, skip, limit, user_id, value, sort) ==
    IF ~TruthyJson(value) THEN get_list(e, dbs, skip, limit, user_id, EmptyDict, sort)
    ELSE IF value.type = "object" THEN get_list(e, dbs, skip, limit, user_id, value.dict, sort)
    ELSE {Raise("AttributeError")}

\* The reply of a list route: the response model has items, total, skip, limit.
ListReply(dbs, sq, status, detail, result) ==
    [db |-> dbs, seq |-> sq, status |-> status, detail |-> detail,
     body |-> result.items, total |-> result.total, skip |-> result.skip,
     limit |-> result.limit]

NoList == Items(<< >>, 0, 0, 0)

\* The body of both list routes, user_id the owner the route passes to get_list.
query_route(e, dbs, sq, query, sort, skip, limit, user_id) ==
    LET query_dict == IF Len(query) > 0 THEN json_loads(query) ELSE JsonNone
    IN  IF query_dict.type = "error"
        THEN {ListReply(dbs, sq, 400, "Invalid query JSON format", NoList)}
        ELSE {IF result.kind = "raise"
              THEN ListReply(dbs, sq, 500, result.exc, NoList)
              ELSE ListReply(dbs, sq, 200, NULL, result) :
                 result \in get_list_json(e, dbs, skip, limit, user_id, query_dict, sort)}

\* As query_entities, had the route passed no user_id.
query_entities_Unscoped(e, dbs, sq, query, sort, skip, limit, current_user) ==
    query_route(e, dbs, sq, query, sort, skip, limit, NULL)

\* GET "": user_id=str(current_user.id)
query_entities(e, dbs, sq, query, sort, skip, limit, current_user) ==
    query_route(e, dbs, sq, query, sort, skip, limit, current_user)

\* GET /all: get_list without user_id
query_entities_all(e, dbs, sq, query, sort, skip, limit) ==
    query_route(e, dbs, sq, query, sort, skip, limit, NULL)

(***************************************************************************)
(* The calls.                                                              *)
(***************************************************************************)
NoId == NullInt

\* The row stored under obj_id, whoever owns it.
Stored(e, obj_id) ==
    IF \E r \in db[e] : r.id = obj_id
    THEN CHOOSE r \in db[e] : r.id = obj_id
    ELSE NoObj

Call(op, e, obj_id, data, user_id, fault, before, res) ==
    [op |-> op, e |-> e, obj_id |-> obj_id, data |-> data, user_id |-> user_id,
     fault |-> fault, before |-> before,
     ret |-> res.ret, commits |-> res.commits, rollbacks |-> res.rollbacks]

Store(e, res) ==
    /\ db'  = res.db
    /\ seq' = [seq EXCEPT ![e] = res.seq]
    /\ UNCHANGED txn

DoCreate(e, data, user_id, fault) ==
    LET res == create(e, db, seq[e], data, user_id, fault)
    IN  /\ seq[e] <= MaxId
        /\ Store(e, res)
        /\ last' = Call("create", e, NoId, data, user_id, fault, NoObj, res)

DoUpdate(e, obj_id, update_data, user_id, fault) ==
    LET res == update(e, db, seq[e], obj_id, update_data, user_id, fault)
    IN  /\ Store(e, res)
        /\ last' = Call("update", e, obj_id, update_data, user_id, fault, Stored(e, obj_id), res)

DoDelete(e, obj_id, user_id, fault) ==
    LET res == delete(e, db, seq[e], obj_id, user_id, fault)
    IN  /\ Store(e, res)
        /\ last' = Call("delete", e, obj_id, EmptyDict, user_id, fault, Stored(e, obj_id), res)

DoList(e, skip, limit, user_id, query_dict, sort) ==
    \E res \in get_list(e, db, skip, limit, user_id, query_dict, sort) :
        /\ UNCHANGED <<db, seq, txn>>
        /\ last' = [op |-> "get_list", e |-> e, obj_id |-> NoId, data |-> query_dict,
                    user_id |-> user_id, fault |-> NoFault, before |-> NoObj,
                    ret |-> res, commits |-> 0, rollbacks |-> 0,
                    skip |-> skip, limit |-> limit, sort |-> sort]

\* The payloads a caller sends.
OneKey(keys) == UNION {{k :> v : v \in InputValues(k)} : k \in keys}

With(dicts, key) == {d @@ (key :> v) : d \in dicts, v \in InputValues(key)}

\* Every required column of the entity given a value (the owner is the call's to give).
Required(e) ==
    LET cols == Model(e).notnull \ {"id", "user_id"}
        c    == CHOOSE x \in cols : TRUE
    IN  {d \in OneKey(cols) : d[c] # NullOf(c)}

\* create: nothing; the required column; with it a nullable column, an owner,
\* or a key the model does not have.
CreateDicts(e) ==
    {EmptyDict} \cup Required(e)
        \cup UNION {With(Required(e), k) :
                      k \in (Model(e).columns \ Model(e).notnull) \cup {"user_id", "bogus"}}

\* update: one key (a column, or a key the model does not have), or a nullable
\* column beside the owner key.
UpdateDicts(e) ==
    OneKey((Model(e).columns \ {"user_id"}) \cup {"bogus"})
        \cup With(OneKey(Model(e).columns \ Model(e).notnull), "user_id")

Create(e) ==
    \E user_id \in UserArgs : \E data \in CreateDicts(e) : DoCreate(e, data, user_id, NoFault)

Update(e) ==
    \E obj_id \in Ids, user_id \in UserArgs : \E update_data \in UpdateDicts(e) :
        DoUpdate(e, obj_id, update_data, user_id, NoFault)

Delete(e) ==
    \E obj_id \in Ids, user_id \in UserArgs : DoDelete(e, obj_id, user_id, NoFault)

\* A row of a table that refers to orders, created for an order id.
CreateChild(e) ==
    /\ seq["order_items"] + seq["payments"] - 2 < MaxChildren
    /\ \E data \in Required(e) : DoCreate(e, data, NULL, NoFault)

\* A session that holds nothing.
Idle ==
    [pc |-> "idle", e |-> "", obj_id |-> NoId, data |-> EmptyDict, user_id |-> NULL,
     obj |-> NoObj, ret |-> None]

Init ==
    /\ db   = [e \in Entities |-> {}]
    /\ seq  = [e \in Entities |-> 1]
    /\ txn  = [r \in {"update", "delete"} |-> Idle]
    /\ last = [op |-> "init", e |-> "", obj_id |-> NoId, data |-> EmptyDict, user_id |-> NULL,
               fault |-> NoFault, before |-> NoObj, ret |-> None, commits |-> 0, rollbacks |-> 0]

\* The user_profiles service.
Next ==
    \/ Create("user_profiles")
    \/ Update("user_profiles")
    \/ Delete("user_profiles")

Spec == Init /\ [][Next]_vars

\* The orders service.
NextOrders ==
    \/ Create("orders")
    \/ Update("orders")
    \/ Delete("orders")

SpecOrders == Init /\ [][NextOrders]_vars

\* Orders and the rows that refer to them.
NextCascade ==
    \/ Create("orders")
    \/ Delete("orders")
    \/ CreateChild("order_items")
    \/ CreateChild("payments")

SpecCascade == Init /\ [][NextCascade]_vars

\* The sort strings: none, "", a column, "-" and a column, a name the model
\* does not have, "-" alone.
SortArgs(e) ==
    {NoSort, << >>, <<"-">>, <<"bogus">>, <<"-", "bogus">>}
        \cup UNION {{<<c>>, <<"-", c>>} : c \in Model(e).columns \ {"user_id"}}

\* The filters: none, one column, a key the model does not have.
QueryDicts(e) ==
    {EmptyDict} \cup OneKey((Model(e).columns \ Model(e).notnull) \cup {"bogus"})

\* A page of N rows, the page after it, or both at once.
Pages == UNION {{<<0, N>>, <<N, N>>, <<0, 2 * N>>} : N \in 1..MaxPage}

\* A sorted page.
ListSorted(e) ==
    \E page \in Pages, sort \in SortArgs(e) :
        DoList(e, page[1], page[2], NULL, EmptyDict, sort)

\* A filtered page, for a caller or for none.
ListFiltered(e) ==
    \E page \in Pages, user_id \in UserArgs, query_dict \in QueryDicts(e) :
        DoList(e, page[1], page[2], user_id, query_dict, NoSort)

\* The orders service and its list.
NextList ==
    \/ Create("orders")
    \/ Update("orders")
    \/ Delete("orders")
    \/ ListSorted("orders")
    \/ ListFiltered("orders")

SpecList == Init /\ [][NextList]_vars

\* The user_profiles service and its list.
NextListOwned ==
    \/ Create("user_profiles")
    \/ Delete("user_profiles")
    \/ ListFiltered("user_profiles")

SpecListOwned == Init /\ [][NextListOwned]_vars

\* A request to a batch route: the route, its items, the caller, and where the
\* store fails.
Request(op, e, items, user_id, faultAt, fault, res) ==
    [op |-> op, e |-> e, items |-> items, user_id |-> user_id,
     faultAt |-> faultAt, fault |-> fault,
     status |-> res.status, body |-> res.body,
     deleted_count |-> res.deleted_count, attempted |-> res.attempted]

NoResults == [seen |-> << >>, body |-> << >>]

DoCreateBatch(e, items, user_id, faultAt, fault) ==
    LET res == create_batch(e, [db |-> db, seq |-> seq[e]], db, seq[e], items, user_id,
                            faultAt, fault, NoResults)
    IN  /\ seq[e] + Len(items) <= MaxId + 1
        /\ Store(e, res)
        /\ last' = Request("create_batch", e, items, user_id, faultAt, fault, res)

DoUpdateBatch(e, items, user_id, faultAt, fault) ==
    LET res == update_batch(e, [db |-> db, seq |-> seq[e]], db, seq[e], items, user_id,
                            faultAt, fault, NoResults)
    IN  /\ Store(e, res)
        /\ last' = Request("update_batch", e, items, user_id, faultAt, fault, res)

DoDeleteBatch(e, ids, user_id, faultAt, fault) ==
    LET res == delete_batch(e, [db |-> db, seq |-> seq[e]], db, seq[e], ids, user_id,
                            faultAt, fault, [seen |-> << >>, n |-> 0])
    IN  /\ Store(e, res)
        /\ last' = Request("delete_batch", e, ids, user_id, faultAt, fault, res)

\* The sequences of one to MaxBatch elements of a set.
Lists(S) == UNION {[1..n -> S] : n \in 1..MaxBatch}

\* Where the store fails during a request of n items: nowhere, or at one
\* item.  The calls for an entity without the owner column raise before they
\* reach the store (the routes always pass a caller).
FaultPlans(e, n) ==
    {<<0, NoFault>>} \cup
        (IF hasattr(e, "user_id") THEN {<<k, fault>> : k \in 1..n, fault \in Faults} ELSE {})

\* The items of a create request: the required field, alone or with the
\* nullable one.
CreateItems(e) ==
    Required(e) \cup {d \in With(Required(e), CHOOSE c \in Model(e).columns \ Model(e).notnull : TRUE) :
                        \A f \in DOMAIN d : d[f] # NullOf(f)}

\* The items of an update request: an id and the nullable field.
UpdateItems(e) ==
    {[id |-> obj_id, updates |-> d] :
        obj_id \in Ids,
        d \in {u \in OneKey(Model(e).columns \ Model(e).notnull) :
                  \A f \in DOMAIN u : u[f] # NullOf(f)}}

CreateBatch(e, callers) ==
    \E user_id \in callers : \E items \in Lists(CreateItems(e)) :
        \E plan \in FaultPlans(e, Len(items)) :
            DoCreateBatch(e, items, user_id, plan[1], plan[2])

UpdateBatch(e, callers) ==
    \E user_id \in callers : \E items \in Lists(UpdateItems(e)) :
        \E plan \in FaultPlans(e, Len(items)) :
            DoUpdateBatch(e, items, user_id, plan[1], plan[2])

DeleteBatch(e, callers) ==
    \E user_id \in callers : \E ids \in Lists(Ids) :
        \E plan \in {p \in FaultPlans(e, Len(ids)) : p[2] # "refresh"} :
            DoDeleteBatch(e, ids, user_id, plan[1], plan[2])

\* The batch routes of the user_profiles router, called by one user.
NextBatch ==
    \/ CreateBatch("user_profiles", {"u1"})
    \/ UpdateBatch("user_profiles", {"u1"})
    \/ DeleteBatch("user_profiles", {"u1"})

SpecBatch == Init /\ [][NextBatch]_vars

\* The batch routes of the orders router, over orders the service created.
NextBatchOrders ==
    \/ Create("orders")
    \/ CreateBatch("orders", Users)
    \/ UpdateBatch("orders", Users)
    \/ DeleteBatch("orders", Users)

SpecBatchOrders == Init /\ [][NextBatchOrders]_vars

\* A call during which the store fails.
CreateFails(e) ==
    \E fault \in Faults : \E data \in Required(e) : DoCreate(e, data, NULL, fault)

UpdateFails(e) ==
    \E obj_id \in Ids, fault \in Faults :
        \E update_data \in OneKey(Model(e).columns \ Model(e).notnull) :
            DoUpdate(e, obj_id, update_data, NULL, fault)

DeleteFails(e) ==
    \E obj_id \in Ids : DoDelete(e, obj_id, NULL, "commit")

\* The orders service over a store that can fail.
NextFaults ==
    \/ Create("orders")
    \/ Update("orders")
    \/ Delete("orders")
    \/ CreateFails("orders")
    \/ UpdateFails("orders")
    \/ DeleteFails("orders")

SpecFaults == Init /\ [][NextFaults]_vars

\* A request to a single-record route: the route, its path id and body, the
\* caller, the row stored under the id before, and the reply.
Exchange(op, e, id, data, current_user, fault, before, res) ==
    [op |-> op, e |-> e, obj_id |-> id, data |-> data, user_id |-> current_user,
     fault |-> fault, before |-> before,
     status |-> res.status, body |-> res.body, detail |-> res.detail]

GetEntity(e, callers) ==
    \E id \in Ids, current_user \in callers :
        LET res == get_entity(e, db, seq[e], id, current_user)
        IN  /\ Store(e, res)
            /\ last' = Exchange("GET", e, id, EmptyDict, current_user, NoFault, Stored(e, id), res)

PostEntity(e, callers, bodies) ==
    \E current_user \in callers : \E data \in bodies :
        LET res == create_entity(e, db, seq[e], data, current_user, NoFault)
        IN  /\ seq[e] <= MaxId
            /\ Store(e, res)
            /\ last' = Exchange("POST", e, NoId, data, current_user, NoFault, NoObj, res)

\* The bodies of a PUT: nothing, or one field of the update schema, null or not.
PutBodies(e) == {EmptyDict} \cup OneKey(SchemaFields(e))

PutEntity(e, callers, bodies) ==
    \E id \in Ids, current_user \in callers : \E data \in bodies :
        LET res == update_entity(e, db, seq[e], id, data, current_user, NoFault)
        IN  /\ Store(e, res)
            /\ last' = Exchange("PUT", e, id, data, current_user, NoFault, Stored(e, id), res)

DeleteEntity(e, callers) ==
    \E id \in Ids, current_user \in callers :
        LET res == delete_entity(e, db, seq[e], id, current_user, NoFault)
        IN  /\ Store(e, res)
            /\ last' = Exchange("DELETE", e, id, EmptyDict, current_user, NoFault, Stored(e, id), res)

\* The single-record routes of the user_profiles router.
NextRoutes ==
    \/ PostEntity("user_profiles", Users, CreateItems("user_profiles"))
    \/ GetEntity("user_profiles", Users)
    \/ PutEntity("user_profiles", Users, PutBodies("user_profiles"))
    \/ DeleteEntity("user_profiles", Users)

SpecRoutes == Init /\ [][NextRoutes]_vars

\* A request to a list route: the route, the query text, the page asked for,
\* the caller (NULL on /all and on the organizations routes), and the reply.
ListExchange(op, e, query, sort, skip, limit, current_user, res) ==
    [op |-> op, e |-> e, obj_id |-> NoId, data |-> query, sort |-> sort,
     skip |-> skip, limit |-> limit, user_id |-> current_user, fault |-> NoFault,
     status |-> res.status, body |-> res.body, detail |-> res.detail,
     reply |-> [total |-> res.total, skip |-> res.skip, limit |-> res.limit]]

\* The nullable column of an entity that the requests filter on.
FilterField(e) == CHOOSE c \in Model(e).columns \ Model(e).notnull : TRUE

FilterValue(e) == CHOOSE v \in InputValues(FilterField(e)) : v # NULL

\* {"<field>": "<value>"}
ObjectOf(field, value) ==
    <<Tok("{", "{"), Tok("str", field), Tok(":", ":"), Tok("str", value), Tok("}", "}")>>

\* No filter, or one.
Filters(e) == {<< >>, ObjectOf(FilterField(e), FilterValue(e))}

\* The queries that are JSON objects of equality filters: none given, {}, one
\* filter, a filter and a key that is no field.
ObjectQueries(e) ==
    { << >>,
      <<Tok("{", "{"), Tok("}", "}")>>,
      ObjectOf(FilterField(e), FilterValue(e)),
      <<Tok("{", "{"), Tok("str", FilterField(e)), Tok(":", ":"), Tok("str", FilterValue(e)), Tok(",", ","),
        Tok("str", "bogus"), Tok(":", ":"), Tok("null", "null"), Tok("}", "}")>> }

\* The queries that are not: text that is no JSON (a truncated object, a bare
\* word), and JSON that is no object (arrays, numbers, strings, null).
OtherQueries(e) ==
    { <<Tok("{", "{"), Tok("str", FilterField(e))>>,
      <<Tok("word", "status=paid")>>,
      <<Tok("[", "["), Tok("]", "]")>>,
      <<Tok("[", "["), Tok("str", "x"), Tok(",", ","), Tok("num", "1"), Tok("]", "]")>>,
      <<Tok("num", "7")>>,
      <<Tok("num", "0")>>,
      <<Tok("str", "x")>>,
      <<Tok("null", "null")>> }

Query(e, callers, queries) ==
    \E current_user \in callers, page \in Pages, query \in queries :
        \E res \in query_entities(e, db, seq[e], query, NoSort, page[1], page[2], current_user) :
            /\ Store(e, res)
            /\ last' = ListExchange("LIST", e, query, NoSort, page[1], page[2], current_user, res)

QueryAll(e, queries) ==
    \E page \in Pages, query \in queries :
        \E res \in query_entities_all(e, db, seq[e], query, NoSort, page[1], page[2]) :
            /\ Store(e, res)
            /\ last' = ListExchange("LIST /all", e, query, NoSort, page[1], page[2], NULL, res)

\* The list routes of the user_profiles router and of the organizations
\* router, whose routes have no caller and pass no user_id.
NextQuery ==
    \/ PostEntity("user_profiles", Users, CreateItems("user_profiles"))
    \/ Query("user_profiles", Users, Filters("user_profiles"))
    \/ QueryAll("user_profiles", Filters("user_profiles"))
    \/ PostEntity("organizations", {NULL}, Required("organizations"))
    \/ Query("organizations", {NULL}, Filters("organizations"))
    \/ GetEntity("organizations", {NULL})
    \/ DeleteEntity("organizations", {NULL})

SpecQuery == Init /\ [][NextQuery]_vars

\* The list routes of the orders router, whatever the query text.
NextQueryText ==
    \/ Create("orders")
    \/ Query("orders", Users, ObjectQueries("orders") \cup OtherQueries("orders"))
    \/ QueryAll("orders", ObjectQueries("orders") \cup OtherQueries("orders"))

SpecQueryText == Init /\ [][NextQueryText]_vars

\* The bodies of POST /items: the required fields alone, or with is_active.
ItemBodies ==
    LET required == [name |-> "Latte", base_price |-> "4.5"]
    IN  {required} \cup With({required}, "is_active")

\* The bodies of PUT /items/{id}: nothing, a price, a name or no name.
ItemPatches == {EmptyDict, [base_price |-> "5.0"]} \cup OneKey({"name"})

\* The single-record routes of the items router.
NextItems ==
    \/ PostEntity("items", Users, ItemBodies)
    \/ GetEntity("items", Users)
    \/ PutEntity("items", Users, ItemPatches)
    \/ DeleteEntity("items", Users)

SpecItems == Init /\ [][NextItems]_vars

\* The items of a PUT /batch: an id, and the nullable field given a value or null.
PutItems(e) ==
    {[id |-> obj_id, updates |-> d] : obj_id \in Ids, d \in OneKey({FilterField(e)})}

PutBatch(e, callers) ==
    \E user_id \in callers : \E items \in Lists(PutItems(e)) :
        DoUpdateBatch(e, items, user_id, 0, NoFault)

\* The PUT routes of the user_profiles router, called by one user.
NextPut ==
    \/ PostEntity("user_profiles", {"u1"}, CreateItems("user_profiles"))
    \/ PutEntity("user_profiles", {"u1"}, PutBodies("user_profiles"))
    \/ PutBatch("user_profiles", {"u1"})

SpecPut == Init /\ [][NextPut]_vars

\* get_by_id called on its own.
DoGetById(e, obj_id, user_id) ==
    /\ UNCHANGED <<db, seq, txn>>
    /\ last' = Call("get_by_id", e, obj_id, EmptyDict, user_id, NoFault, Stored(e, obj_id),
                    Result(db, seq[e], get_by_id(e, db, obj_id, user_id), 0, 0))

\* The user_id arguments that are no caller: None and the empty string.
FalsyArgs == {NULL, ""}

CreateAs(e, users) ==
    \E user_id \in users : \E data \in Required(e) \cup With(Required(e), "user_id") :
        DoCreate(e, data, user_id, NoFault)

GetByIdAs(e, users) ==
    \E obj_id \in Ids, user_id \in users : DoGetById(e, obj_id, user_id)

UpdateAs(e, users) ==
    \E obj_id \in Ids, user_id \in users : \E update_data \in OneKey({FilterField(e)}) :
        DoUpdate(e, obj_id, update_data, user_id, NoFault)

DeleteAs(e, users) ==
    \E obj_id \in Ids, user_id \in users : DoDelete(e, obj_id, user_id, NoFault)

ListAs(e, users) ==
    \E user_id \in users : DoList(e, 0, MaxId, user_id, EmptyDict, NoSort)

\* The user_profiles service called with a caller, with None and with "".
NextFalsy ==
    \/ CreateAs("user_profiles", FalsyArgs \cup {"u1"})
    \/ GetByIdAs("user_profiles", FalsyArgs \cup {"u1"})
    \/ UpdateAs("user_profiles", FalsyArgs \cup {"u1"})
    \/ DeleteAs("user_profiles", FalsyArgs \cup {"u1"})
    \/ ListAs("user_profiles", FalsyArgs \cup {"u1"})

SpecFalsy == Init /\ [][NextFalsy]_vars

(***************************************************************************)
(* Two requests at once, an update and a delete, each with its own         *)
(* session.  A call gives way to the other at its awaits: update at        *)
(* get_by_id, commit and refresh; delete at get_by_id and commit.  The     *)
(* flush of a commit writes by primary key the object the session loaded.  *)
(***************************************************************************)
Session(pc, e, obj_id, data, user_id, obj, ret) ==
    [pc |-> pc, e |-> e, obj_id |-> obj_id, data |-> data, user_id |-> user_id,
     obj |-> obj, ret |-> ret]

\* The call of request r has returned or raised.
Finish(r, ret) == [txn EXCEPT ![r].pc = "done", ![r].ret = ret]

Step(op, r, res) ==
    Call(op, txn[r].e, txn[r].obj_id, txn[r].data, txn[r].user_id, NoFault, txn[r].obj, res)

\* obj = await self.get_by_id(obj_id, user_id=user_id); if not obj: return
Begin(r, e, obj_id, data, user_id, notfound) ==
    LET got == get_by_id(e, db, obj_id, user_id)
        ret == IF got.kind = "none" THEN notfound ELSE got
    IN  /\ txn[r].pc = "idle"
        /\ txn' = [txn EXCEPT ![r] =
                      Session(IF got.kind = "obj" THEN "loaded" ELSE "done",
                              e, obj_id, data, user_id, got.obj, ret)]
        /\ UNCHANGED <<db, seq>>
        /\ last' = Call(r, e, obj_id, data, user_id, NoFault, got.obj,
                        Result(db, seq[e], ret, 0, IF got.kind = "raise" THEN 1 ELSE 0))

BeginUpdate(e) ==
    \E obj_id \in Ids : \E update_data \in UpdateDicts(e) :
        Begin("update", e, obj_id, update_data, NULL, None)

BeginDelete(e) ==
    \E obj_id \in Ids : Begin("delete", e, obj_id, EmptyDict, NULL, False)

\* The loop of update and `await self.db.commit()`: the flush emits
\* UPDATE ... WHERE id = <the id loaded> for the attributes that changed, none
\* if none did.  When the row is gone the UPDATE matches no row: the session
\* raises StaleDataError where the driver reports row counts, and commits
\* nothing otherwise.
CommitUpdate ==
    LET s       == txn["update"]
        obj     == ApplyPatch(s.e, s.obj, s.data)
        there   == Stored(s.e, s.obj.id) # NoObj
        written == [db EXCEPT ![s.e] = {r \in @ : r.id # s.obj.id} \cup {obj}]
        Raised(exc, dbs) ==
            /\ txn' = Finish("update", Raise(exc))
            /\ db' = dbs
            /\ last' = Step("update.commit", "update", Result(dbs, seq[s.e], Raise(exc), 1, 1))
        Committed(dbs, o) ==
            /\ txn' = [txn EXCEPT !["update"].pc = "committed", !["update"].obj = o]
            /\ db' = dbs
            /\ last' = Step("update.commit", "update", Result(dbs, seq[s.e], None, 1, 0))
    IN  /\ s.pc = "loaded"
        /\ UNCHANGED seq
        /\ IF obj = s.obj THEN Committed(db, s.obj)
           ELSE IF ~there
           THEN \/ Raised("StaleDataError", db)
                \/ Committed(db, obj)
           ELSE IF ~(PrimaryKeyOK({r \in db[s.e] : r.id # s.obj.id}, obj) /\ NotNullOK(s.e, obj))
           THEN Raised("IntegrityError", db)
           ELSE Committed(written, obj)

\* `await self.db.refresh(obj)`: SELECT by the primary key of the object; a
\* row that is gone raises InvalidRequestError, and update rolls back and
\* re-raises.
RefreshUpdate ==
    LET s   == txn["update"]
        row == Stored(s.e, s.obj.id)
        ret == IF row = NoObj THEN Raise("InvalidRequestError") ELSE Obj(row)
    IN  /\ s.pc = "committed"
        /\ txn' = Finish("update", ret)
        /\ UNCHANGED <<db, seq>>
        /\ last' = Step("update.refresh", "update",
                        Result(db, seq[s.e], ret, 0, IF row = NoObj THEN 1 ELSE 0))

\* `await self.db.delete(obj)` and `await self.db.commit()`: the flush emits
\* DELETE ... WHERE id = <the id loaded>; a DELETE that matches no row is a
\* warning of the session, not an error.  return True.
CommitDelete ==
    LET s   == txn["delete"]
        row == Stored(s.e, s.obj.id)
        dbs == IF row = NoObj THEN db ELSE DeleteRow(db, s.e, row)
    IN  /\ s.pc = "loaded"
        /\ txn' = Finish("delete", True)
        /\ db' = dbs
        /\ UNCHANGED seq
        /\ last' = Step("delete.commit", "delete", Result(dbs, seq[s.e], True, 1, 0))

\* An order created while no caller is given.
CreateOrder ==
    \E data \in Required("orders") : DoCreate("orders", data, NULL, NoFault)

\* An update and a delete of the orders service, interleaved.
NextInterleaved ==
    \/ CreateOrder
    \/ BeginUpdate("orders")
    \/ CommitUpdate
    \/ RefreshUpdate
    \/ BeginDelete("orders")
    \/ CommitDelete

SpecInterleaved == Init /\ [][NextInterleaved]_vars

(***************************************************************************)
(* The claims.                                                             *)
(***************************************************************************)
\* The entities whose model has the owner column.
OwnerScoped == {e \in Entities : hasattr(e, "user_id")}

Returned(op) == last.op = op /\ last.ret.kind = "obj"

\* C1 (as claimed): once create(fields, ownerId = A) has returned a record with id i
\* of an owner-scoped entity, get_by_id(i, B) is None for every other caller B and
\* get_by_id(i, A) is the record, right after the create and after a further call
\* that does not delete i.
C1_Original ==
    [][ (Returned("create") /\ last.e \in OwnerScoped /\ Truthy(last.user_id)) =>
          LET e == last.e
              i == last.ret.obj.id
              A == last.user_id
          IN  /\ get_by_id(e, db, i, A) = last.ret
              /\ \A B \in Users \ {A} : get_by_id(e, db, i, B) = None
              /\ ~(last'.op = "delete" /\ last'.obj_id = i /\ last'.ret = True) =>
                    /\ get_by_id(e, db', i, A).kind = "obj"
                    /\ \A B \in Users \ {A} : get_by_id(e, db', i, B) = None ]_vars

\* C2: an update or a delete called with caller identity A leaves every row owned
\* by another identity stored with the same values, whatever id and patch A gives.
C2_OthersUntouched ==
    [][ (last'.op \in {"update", "delete"} /\ Truthy(last'.user_id)) =>
          \A e \in OwnerScoped : \A r \in db[e] :
              r.user_id # last'.user_id => r \in db'[e] ]_vars

\* C2's case: a caller's update or delete went through while another owner's row is stored.
C2_Witness ==
    /\ last.op \in {"update", "delete"} /\ last.ret.kind \in {"obj", "true"}
    /\ Truthy(last.user_id)
    /\ last.before.user_id = last.user_id
    /\ \E r \in db[last.e] : r.user_id # last.user_id

\* C3: an update whose patch has the key user_id returns and stores the record with
\* the user_id it had, and with the patch's other known keys applied; an update that
\* returns no record changes no row.
C3_OwnerNeverChanges ==
    (last.op = "update" /\ "user_id" \in DOMAIN last.data /\ last.e \in OwnerScoped) =>
        IF last.ret.kind = "obj"
        THEN /\ last.ret.obj.user_id = last.before.user_id
             /\ \A k \in DOMAIN last.data \ {"user_id"} :
                    hasattr(last.e, k) => last.ret.obj[k] = last.data[k]
             /\ last.ret.obj \in db[last.e]
             /\ \A r \in db[last.e] : r.id = last.ret.obj.id => r = last.ret.obj
        ELSE last.before # NoObj => last.before \in db[last.e]

\* C3's case: a patch naming another owner and another value of phone was applied
\* to phone alone.
C3_Witness ==
    /\ Returned("update")
    /\ "user_id" \in DOMAIN last.data /\ "phone" \in DOMAIN last.data
    /\ last.data.user_id # last.before.user_id
    /\ last.data.phone # last.before.phone
    /\ last.ret.obj.phone = last.data.phone

\* C4: create with an owner stores a row of an owner-scoped entity whose user_id is
\* that owner, whatever user_id the fields carry.
C4_OwnerInjected ==
    (last.op = "create" /\ Truthy(last.user_id) /\ last.e \in OwnerScoped) =>
        /\ last.ret.kind \in {"obj", "raise"}
        /\ last.ret.kind = "obj" =>
              /\ last.ret.obj.user_id = last.user_id
              /\ last.ret.obj \in db[last.e]
              /\ \A r \in db[last.e] : r.id = last.ret.obj.id => r = last.ret.obj

\* C4's case: the fields carried another owner than the call.
C4_Witness ==
    /\ Returned("create") /\ Truthy(last.user_id)
    /\ "user_id" \in DOMAIN last.data
    /\ last.data.user_id # last.user_id

\* C5 (as claimed): no two rows of an entity share an id, and an update leaves the
\* record under the id it had.
C5_Original ==
    /\ \A e \in Entities : \A r1, r2 \in db[e] : r1.id = r2.id => r1 = r2
    /\ Returned("update") => last.ret.obj.id = last.before.id

\* C6 (as claimed): after update(id, P) with P of known, non-owner keys has returned
\* a record, get_by_id(id) shows P's values for P's keys and the values the record
\* had for every other column, and the same update once more changes nothing.
C6_Original ==
    (/\ Returned("update")
     /\ \A k \in DOMAIN last.data : hasattr(last.e, k) /\ k # "user_id") =>
        LET got == get_by_id(last.e, db, last.obj_id, last.user_id)
        IN  /\ got.kind = "obj"
            /\ \A c \in Model(last.e).columns :
                  got.obj[c] = IF c \in DOMAIN last.data THEN last.data[c] ELSE last.before[c]
            /\ update(last.e, db, seq[last.e], last.obj_id, last.data, last.user_id, NoFault).db = db

\* C7: an update that returns a record has set every patch key that is a nullable
\* column to the patch's value, NULL included, and has left every column the patch
\* does not name at the value it had.
C7_NullApplied ==
    Returned("update") =>
        /\ last.ret.obj \in db[last.e]
        /\ \A c \in Model(last.e).columns :
              /\ (c \in DOMAIN last.data /\ c \notin Model(last.e).notnull) =>
                    last.ret.obj[c] = last.data[c]
              /\ c \notin DOMAIN last.data => last.ret.obj[c] = last.before[c]

\* C7's case: a patch of an explicit NULL cleared a column that held a value.
C7_Witness ==
    /\ Returned("update")
    /\ \E c \in DOMAIN last.data :
          /\ c \in Model(last.e).columns \ Model(last.e).notnull
          /\ last.data[c] = NULL
          /\ last.before[c] # NULL
          /\ last.ret.obj[c] = NULL

\* The row a call on (obj_id, user_id) may see: it is stored, and it is the caller's
\* when the call names a caller and the entity has an owner column.
Visible(e, row, user_id) ==
    /\ row # NoObj
    /\ (Truthy(user_id) /\ e \in OwnerScoped) => row.user_id = user_id

\* C8 (as claimed): update on an id that is absent or another caller's returns None,
\* writes nothing and issues no commit.
C8_Original ==
    [][ (last'.op = "update" /\ ~Visible(last'.e, last'.before, last'.user_id)) =>
          /\ last'.ret = None
          /\ last'.commits = 0
          /\ db' = db ]_vars

\* C9 (as claimed): delete returns True and removes exactly the row when it is
\* visible to the caller, and returns False and changes nothing when it is not.
C9_Original ==
    [][ last'.op = "delete" =>
          IF Visible(last'.e, last'.before, last'.user_id)
          THEN /\ last'.ret = True
               /\ db' = [db EXCEPT ![last'.e] = @ \ {last'.before}]
          ELSE /\ last'.ret = False
               /\ db' = db ]_vars

\* C10: a delete of an order that returns True leaves the rows of every other
\* entity as they were.
C10_NoCascade ==
    [][ (last'.op = "delete" /\ last'.e = "orders" /\ last'.ret = True) =>
          \A e \in Entities \ {"orders"} : db'[e] = db[e] ]_vars

\* C10's case: the deleted order's order_items row and payments row are still stored.
C10_Witness ==
    /\ last.op = "delete" /\ last.e = "orders" /\ last.ret = True
    /\ \A r \in db["orders"] : r.id # last.obj_id
    /\ \E r \in db["order_items"] : r.order_id = last.obj_id
    /\ \E r \in db["payments"] : r.order_id = last.obj_id

\* A get_list call that returned a page.
Listed == last.op = "get_list" /\ last.ret.kind = "list"

\* C11 (as claimed): a list call whose filters carry a key the entity does not
\* have is rejected; it never returns a result.
C11_Original ==
    (last.op = "get_list" /\ \E field \in DOMAIN last.data : ~hasattr(last.e, field)) =>
        last.ret.kind = "raise"

\* The stored records that satisfy the equality filter of every filter key that
\* is a field of the entity and, for a caller, the owner predicate.
Satisfying(e, query_dict, user_id) ==
    {r \in db[e] :
        /\ Truthy(user_id) => r.user_id = user_id
        /\ \A field \in DOMAIN query_dict \cap DOMAIN r : r[field] = query_dict[field]}

\* C12: for every list call that returns, total is the number of stored records
\* that satisfy all the equality filters and, for a caller, the owner predicate,
\* whatever skip and limit are; the records returned are among them; an empty
\* table gives no records and total 0.
C12_TotalCountsMatches ==
    Listed =>
        LET match == Satisfying(last.e, last.data, last.user_id)
        IN  /\ last.ret.total = Cardinality(match)
            /\ \A i \in DOMAIN last.ret.items : last.ret.items[i] \in match
            /\ Len(last.ret.items) <= last.limit
            /\ db[last.e] = {} => (last.ret.items = << >> /\ last.ret.total = 0)

\* A caller's filtered list, asked for from the second record on, whose page
\* holds one record of a total of two.
C12_Witness ==
    /\ Listed
    /\ Truthy(last.user_id)
    /\ DOMAIN last.data = {"phone"}
    /\ last.skip = 1
    /\ last.ret.total = 2
    /\ Len(last.ret.items) = 1

\* C13: a page asked for with sort = f is in ascending order of f, with
\* sort = -f in descending order of f (rows whose f is NULL aside), and with no
\* sort in descending order of id.
C13_Ordered ==
    Listed =>
        LET items == last.ret.items
            sort  == last.sort
            Asc(f)  == \A i, j \in DOMAIN items :
                          (i < j /\ items[i][f] # NullOf(f) /\ items[j][f] # NullOf(f)) =>
                              Rank(f, items[i][f], TRUE) <= Rank(f, items[j][f], TRUE)
            Desc(f) == \A i, j \in DOMAIN items :
                          (i < j /\ items[i][f] # NullOf(f) /\ items[j][f] # NullOf(f)) =>
                              Rank(f, items[i][f], TRUE) >= Rank(f, items[j][f], TRUE)
        IN  /\ (sort = NoSort \/ sort = << >>) =>
                  \A i, j \in DOMAIN items : i < j => items[i].id > items[j].id
            /\ (sort # NoSort /\ Len(sort) = 1 /\ hasattr(last.e, sort[1])) => Asc(sort[1])
            /\ (sort # NoSort /\ Len(sort) = 2 /\ sort[1] = "-" /\ hasattr(last.e, sort[2])) =>
                  Desc(sort[2])

\* A page of two rows sorted by -status whose statuses differ.
C13_Witness ==
    /\ Listed
    /\ last.sort = <<"-", "status">>
    /\ Len(last.ret.items) = 2
    /\ last.ret.items[1].status = "pending"
    /\ last.ret.items[2].status = "paid"

\* C14 (as claimed): with a sort value naming no field of the entity (after a
\* leading "-" is stripped), the call returns without error and its records are
\* in descending order of id.
C14_Original ==
    (last.op = "get_list" /\ ~Truthy(last.user_id) /\ SortGiven(last.sort)
        /\ ~hasattrName(last.e, IF startswith(last.sort, "-") THEN Tail(last.sort) ELSE last.sort)) =>
        /\ last.ret.kind = "list"
        /\ \A i, j \in DOMAIN last.ret.items :
              i < j => last.ret.items[i].id > last.ret.items[j].id

\* C15 (as claimed): with no write in between, for every N and every sort by a
\* field of the entity, the pages list(0, N) and list(N, N) share no record and
\* one after the other they are list(0, 2N).
C15_Original ==
    \A N \in 1..MaxPage : \A sort \in SortArgs("orders") :
        order_by("orders", sort) # NoOrder =>
            \A a \in get_list("orders", db, 0, N, NULL, EmptyDict, sort) :
            \A b \in get_list("orders", db, N, N, NULL, EmptyDict, sort) :
            \A c \in get_list("orders", db, 0, 2 * N, NULL, EmptyDict, sort) :
                /\ \A i \in DOMAIN a.items, j \in DOMAIN b.items : a.items[i] # b.items[j]
                /\ a.items \o b.items = c.items

\* C16 (as claimed): a create whose fields carry a name the entity does not have
\* is rejected before any storage access: the call raises, it issues no commit
\* and no rollback, and the tables are as they were.
C16_Original ==
    [][ (last'.op = "create" /\ \E k \in DOMAIN last'.data : ~hasattr(last'.e, k)) =>
            /\ last'.ret.kind = "raise"
            /\ last'.commits = 0 /\ last'.rollbacks = 0
            /\ db' = db ]_vars

\* C17 (as claimed): a batch create without a storage failure in which exactly
\* one item carries, as create receives it, a name that is not a field of the
\* entity answers 201 with the records of all the other items.
C17_Original ==
    (last.op = "create_batch" /\ last.faultAt = 0) =>
        LET invalid == {k \in DOMAIN last.items :
                          \E key \in DOMAIN Inject(model_dump(last.e, last.items[k]), last.user_id) :
                              ~hasattr(last.e, key)}
        IN  Cardinality(invalid) = 1 =>
                /\ last.status = 201
                /\ Len(last.body) = Len(last.items) - 1

\* The tables after the first n items of a batch request went through.
AfterItems(op, e, items, n, user_id) ==
    LET start == [db |-> db, seq |-> seq[e]]
        head  == SubSeq(items, 1, n)
    IN  CASE op = "create_batch" ->
                create_batch(e, start, db, seq[e], head, user_id, 0, NoFault, NoResults)
          [] op = "update_batch" ->
                update_batch(e, start, db, seq[e], head, user_id, 0, NoFault, NoResults)
          [] op = "delete_batch" ->
                delete_batch(e, start, db, seq[e], head, user_id, 0, NoFault,
                             [seen |-> << >>, n |-> 0])

\* C18: when item k of a batch request fails with an exception, the request
\* answers 500, what items 1..k-1 wrote stays persisted (the tables are as
\* those items left them, or that with what item k itself got committed), and
\* no item after k is attempted.
C18_AbortKeepsEarlier ==
    [][ (last'.op \in {"create_batch", "update_batch", "delete_batch"} /\ last'.status = 500) =>
            LET k      == last'.attempted
                before == AfterItems(last'.op, last'.e, last'.items, k - 1, last'.user_id)
                upto   == AfterItems(last'.op, last'.e, last'.items, k, last'.user_id)
            IN  /\ k = last'.faultAt
                /\ before.status # 500
                /\ db' = before.db \/ db' = upto.db ]_vars

\* A batch create of two items that failed at the second, the first persisted.
C18_Witness ==
    /\ last.op = "create_batch"
    /\ last.status = 500
    /\ Len(last.items) = 2
    /\ last.attempted = 2
    /\ last.fault = "commit"
    /\ Cardinality(db[last.e]) = 1

\* C19 (as claimed): without a storage failure, batch update answers with the
\* updated records of exactly the items whose id exists and is visible to the
\* caller, in input order, and batch delete answers with deleted_count the
\* number of distinct input ids that existed and were visible to the caller;
\* absent and foreign ids are skipped, the request does not fail.
C19_Original ==
    [][ (last'.op \in {"update_batch", "delete_batch"} /\ last'.faultAt = 0) =>
            LET e       == last'.e
                Seen(i) == Visible(e, Stored(e, i), last'.user_id)
                Hit(item) == Seen(item.id)
                hits    == SelectSeq(last'.items, Hit)
            IN  /\ last'.status = 200
                /\ last'.op = "delete_batch" =>
                      last'.deleted_count =
                          Cardinality({k \in Ids : Seen(k) /\ \E j \in DOMAIN last'.items : last'.items[j] = k})
                /\ last'.op = "update_batch" =>
                      /\ Len(last'.body) = Len(hits)
                      /\ \A j \in DOMAIN last'.body :
                            /\ last'.body[j].id = hits[j].id
                            /\ \A f \in DOMAIN hits[j].updates :
                                  last'.body[j][f] = hits[j].updates[f] ]_vars

\* C20 (as claimed): when the store fails during a create, update or delete, at
\* the commit or at the read-back, the call raises (it returns no record and no
\* true) and the tables are as they were before the call.
C20_Original ==
    [][ (last'.op \in {"create", "update", "delete"} /\ last'.fault \in Faults
            /\ last'.commits > 0) =>
            /\ last'.ret.kind = "raise"
            /\ last'.rollbacks = 1
            /\ db' = db ]_vars

\* C21 (as claimed): every create, update and delete ends with its transaction
\* closed, whichever way it exits: a call that returns (a record, true, None or
\* False) has issued one commit and no rollback, a call that raises has issued
\* one rollback.
C21_Original ==
    last.op \in {"create", "update", "delete"} =>
        IF last.ret.kind = "raise"
        THEN last.rollbacks = 1
        ELSE last.commits = 1 /\ last.rollbacks = 0

\* The reply of a single-record route to the request of `last`, were the tables dbs.
ReplyIn(dbs, req) ==
    CASE req.op = "GET"    -> get_entity(req.e, dbs, seq[req.e], req.obj_id, req.user_id)
      [] req.op = "PUT"    -> update_entity(req.e, dbs, seq[req.e], req.obj_id, req.data,
                                            req.user_id, req.fault)
      [] req.op = "DELETE" -> delete_entity(req.e, dbs, seq[req.e], req.obj_id, req.user_id,
                                            req.fault)

\* C22: GET, PUT and DELETE on /{id} by caller A answer 404 with the same body
\* when no row has the id and when the row of the id belongs to another owner:
\* the reply to the request in the tables without that row is the reply given,
\* neither request changes a row, and neither gets another error than 404.
C22_Indistinguishable ==
    [][ (/\ last'.op \in {"GET", "PUT", "DELETE"}
         /\ last'.e \in OwnerScoped
         /\ last'.before = NoObj \/ last'.before.user_id # last'.user_id) =>
            LET e      == last'.e
                absent == [db EXCEPT ![e] = @ \ {last'.before}]
                there  == ReplyIn(absent, last')
            IN  /\ last'.status = 404
                /\ last'.detail = "not found"
                /\ db' = db
                /\ there.status = last'.status
                /\ there.body = last'.body
                /\ there.detail = last'.detail
                /\ there.db = absent ]_vars

\* C22's case: a PUT with a field to set, on the id of another owner's row,
\* was answered 404.
C22_Witness ==
    /\ last.op = "PUT" /\ last.status = 404
    /\ last.before # NoObj
    /\ last.before.user_id # last.user_id
    /\ \E f \in DOMAIN last.data : last.data[f] # NullOf(f) /\ last.data[f] # last.before[f]

\* The stored records that have, for every "key": value of the query text whose
\* key is a field, that value.
Matching(e, query) ==
    {r \in db[e] :
        \A i \in 1..(Len(query) - 2) :
            (query[i].t = "str" /\ query[i + 1].t = ":" /\ query[i].v \in DOMAIN r) =>
                r[query[i].v] = (IF query[i + 2].t = "null" THEN NULL ELSE query[i + 2].v)}

\* C23: the list route of user_profiles answers with the caller's matching
\* records only and total their number; /all and the organizations routes
\* apply no owner predicate: /all answers with the matching records of all
\* owners and total counts all of them, and the organizations routes find
\* and delete a record whoever asks.
C23_ListScoped ==
    /\ last.op \in {"LIST", "LIST /all"} =>
          LET match   == Matching(last.e, last.data)
              visible == IF last.op = "LIST" /\ last.e = "user_profiles"
                         THEN {r \in match : r.user_id = last.user_id}
                         ELSE match
              n       == Cardinality(visible)
              rest    == IF n > last.skip THEN n - last.skip ELSE 0
          IN  /\ last.status = 200
              /\ last.reply.total = n
              /\ \A i \in DOMAIN last.body : last.body[i] \in visible
              /\ \A i, j \in DOMAIN last.body : last.body[i] = last.body[j] => i = j
              /\ Len(last.body) = IF rest < last.limit THEN rest ELSE last.limit
    /\ (last.op \in {"GET", "DELETE"} /\ last.e = "organizations") =>
          last.status = IF last.before = NoObj THEN 404 ELSE 200

\* C23's case: /all answered with the records of two owners, total 2.
C23_Witness ==
    /\ last.op = "LIST /all"
    /\ last.e = "user_profiles"
    /\ last.reply.total = 2
    /\ Len(last.body) = 2
    /\ last.body[1].user_id # last.body[2].user_id

C25_Original ==
    (last.op \in {"LIST", "LIST /all"} /\ last.data \in OtherQueries(last.e)) =>
        last.status = 400

\* The patches of a PUT request: the body of PUT /{id}, the updates of each
\* item of PUT /batch with its id.
Patches(req) ==
    IF req.op = "PUT" THEN {[id |-> req.obj_id, updates |-> req.data]}
    ELSE {req.items[k] : k \in DOMAIN req.items}

\* C26: PUT /{id} and PUT /batch drop the null-valued keys of a patch before
\* they call update: a key given as null leaves the stored value as it was,
\* and after a PUT every field that was non-null is non-null still.
C26_NullsStripped ==
    [][ last'.op \in {"PUT", "update_batch"} =>
          \A r \in db[last'.e] :
              \E now \in db'[last'.e] :
                  /\ now.id = r.id
                  /\ \A c \in DOMAIN r : r[c] # NullOf(c) => now[c] # NullOf(c)
                  /\ \A p \in Patches(last') : \A c \in DOMAIN p.updates :
                        (p.id = r.id /\ p.updates[c] = NullOf(c)
                            /\ \A q \in Patches(last') : q.id = r.id => q = p) =>
                                now[c] = r[c] ]_vars

\* C26's case: a PUT of {phone: null} on the caller's record, whose phone was
\* set, was answered 200 and the phone is still stored.
C26_Witness ==
    /\ last.op = "PUT" /\ last.status = 200
    /\ last.data = [phone |-> NULL]
    /\ last.before.phone = "555"
    /\ Stored(last.e, last.obj_id).phone = "555"

\* C27: the owner predicate is applied exactly when user_id is truthy.  Called
\* with None or "", get_by_id returns the record of the id whoever owns it,
\* update and delete change and remove it, the list holds the records of every
\* owner and total counts them, and create stores the owner its fields carry;
\* called with a caller, they find none but the caller's records.
C27_TruthyScopes ==
    [][ last'.e \in OwnerScoped =>
          LET scoped == last'.user_id \notin {NULL, ""}
              row    == last'.before
              found  == row # NoObj /\ (scoped => row.user_id = last'.user_id)
              seen   == {r \in db[last'.e] : scoped => r.user_id = last'.user_id}
          IN  /\ last'.op = "get_by_id" =>
                    last'.ret = IF found THEN Obj(row) ELSE None
              /\ last'.op = "update" =>
                    IF found
                    THEN /\ last'.ret.kind = "obj"
                         /\ \A k \in DOMAIN last'.data : last'.ret.obj[k] = last'.data[k]
                         /\ db'[last'.e] = (db[last'.e] \ {row}) \cup {last'.ret.obj}
                    ELSE last'.ret = None /\ db' = db
              /\ last'.op = "delete" =>
                    IF found
                    THEN last'.ret = True /\ db'[last'.e] = db[last'.e] \ {row}
                    ELSE last'.ret = False /\ db' = db
              /\ last'.op = "get_list" =>
                    /\ last'.ret.kind = "list"
                    /\ last'.ret.total = Cardinality(seen)
                    /\ {last'.ret.items[i] : i \in DOMAIN last'.ret.items} = seen
              /\ (last'.op = "create" /\ last'.ret.kind = "obj") =>
                    IF scoped THEN last'.ret.obj.user_id = last'.user_id
                    ELSE /\ "user_id" \in DOMAIN last'.data
                         /\ last'.ret.obj.user_id = last'.data.user_id ]_vars

\* C27's case: a delete called with "" removed a record that has an owner.
C27_Witness ==
    /\ last.op = "delete" /\ last.user_id = ""
    /\ last.ret = True
    /\ last.before.user_id \in Users
    /\ last.before \notin db[last.e]

\* C28: every list result has len(items) = min(limit, max(0, total - skip)),
\* and its skip and limit are the arguments of the call (the count query and
\* the page query read the same tables).
C28_PageLength ==
    Listed =>
        LET rest == IF last.ret.total > last.skip THEN last.ret.total - last.skip ELSE 0
        IN  /\ Len(last.ret.items) = IF last.limit < rest THEN last.limit ELSE rest
            /\ last.ret.skip = last.skip
            /\ last.ret.limit = last.limit

\* C28's case: the second page of one row, of two orders.
C28_Witness ==
    /\ Listed
    /\ last.e = "orders"
    /\ last.skip = 1 /\ last.limit = 1
    /\ last.ret.total = 2
    /\ Len(last.ret.items) = 1

\* C29 (as claimed): with an update and a delete of the same record under way
\* at once, once delete has returned true no row has the record's id in any
\* later state, and an update that ends after that returns None or raises.
C29_Original ==
    [][ (/\ txn.delete.pc = "done" /\ txn.delete.ret = True
         /\ txn'.update.obj_id = txn.delete.obj_id) =>
            /\ \A r \in db'[txn.delete.e] : r.id # txn.delete.obj_id
            /\ (txn.update.pc # "done" /\ txn'.update.pc = "done") =>
                  txn'.update.ret.kind \in {"none", "raise"} ]_vars
====
